---- MODULE Spec2Model ----
(***************************************************************************)
(* Booking lifecycle, availability check and cancellation-fee policy of    *)
(* the booking management backend (Booking model + bookingController),     *)
(* and the payment events of its two gateways (paymentController,          *)
(* razorpayController).                                                    *)
(*                                                                         *)
(* Time is counted in minutes since midnight of day 0; a bookingDate is a  *)
(* day number.  Strings that the code compares or parses (HH:MM times,     *)
(* cancellation reasons) are sequences of one-character strings.  Amounts  *)
(* are integers; every price used is a multiple of 10, so 10% and 50% of   *)
(* a total are exact.                                                      *)
(***************************************************************************)
EXTENDS Integers, Sequences, FiniteSets, TLC

VARIABLES
    bookings,     \* the Booking collection: sequence of documents, _id = index
    now,          \* the clock (new Date()), in minutes
    response,     \* outcome of the last handled request
    requests,     \* createBooking requests that passed their checks and await Booking.create
    availability, \* what the last Booking.checkAvailability call returned (set of _id)
    payments,     \* the Payment collection: sequence of documents, _id = index
    inflight      \* the webhook event just applied, which the gateway may deliver again

vars == <<bookings, now, response, requests, availability, payments, inflight>>

---------------------------------------------------------------------------
(* Bounds of the model *)

\* bookings a run of the lifecycle specification (Spec) may create
MaxLifecycleBookings == 1
\* payment records a run of the payment specification (SpecPay) may create
MaxPayments == 1
\* times the gateway delivers one webhook event (delivery is at-least-once)
MaxDeliveries == 2
\* bookings a run of the availability specification (SpecAvail) may create
MaxBookings == 2
\* createBooking requests of the race specification (SpecRace)
MaxRequests == 2
\* hours before/after the booking start that SpecFee's clock ranges over
MaxHoursAhead == 50
MaxHoursPast == 1

---------------------------------------------------------------------------
(* Program constants *)

FeeFreeHours == 48
FeeLowHours == 24
FeeHalfHours == 2
CancelWindowHours == 24
MaxReasonLength == 200

Statuses == {"pending", "confirmed", "in_progress", "completed", "cancelled", "no_show"}
CancelledByTags == {"user", "provider", "admin", "system"}
Terminal == {"completed", "cancelled", "no_show"}

---------------------------------------------------------------------------
(* Users and services (collaborator data, fixed) *)

Role == [u1 |-> "user", p1 |-> "service_provider", p2 |-> "service_provider", a1 |-> "admin"]
Actors == DOMAIN Role

\* s1 and s3 are bookable, s2 is switched off; any other id does not exist
Services ==
    [s1 |-> [provider |-> "p1", isActive |-> TRUE, price |-> 50],
     s2 |-> [provider |-> "p1", isActive |-> FALSE, price |-> 50],
     s3 |-> [provider |-> "p1", isActive |-> TRUE, price |-> 30]]

---------------------------------------------------------------------------
(* Strings *)

DigitChars == <<"0", "1", "2", "3", "4", "5", "6", "7", "8", "9">>

IsDigit(c) == \E i \in 1..10 : DigitChars[i] = c

DigitValue(c) == (CHOOSE i \in 1..10 : DigitChars[i] = c) - 1

\* code unit of a character: digits 48..57, ':' 58, ' ' 32, anything else a letter
CharCode(c) ==
    IF IsDigit(c) THEN 48 + DigitValue(c)
    ELSE IF c = ":" THEN 58
    ELSE IF c = " " THEN 32
    ELSE 120

\* the order MongoDB's $lt / $gt put on two strings: code unit by code unit
RECURSIVE StrLess(_, _)
StrLess(a, b) ==
    IF a = <<>> THEN b # <<>>
    ELSE IF b = <<>> THEN FALSE
    ELSE IF CharCode(Head(a)) # CharCode(Head(b)) THEN CharCode(Head(a)) < CharCode(Head(b))
    ELSE StrLess(Tail(a), Tail(b))

\* String.prototype.split(':'): the parts before and after the first ':'
RECURSIVE BeforeColon(_)
BeforeColon(s) ==
    IF s = <<>> \/ Head(s) = ":" THEN <<>> ELSE <<Head(s)>> \o BeforeColon(Tail(s))

RECURSIVE AfterColon(_)
AfterColon(s) ==
    IF s = <<>> THEN <<>> ELSE IF Head(s) = ":" THEN Tail(s) ELSE AfterColon(Tail(s))

\* parseInt of a string of digits
RECURSIVE ParseInt(_)
ParseInt(s) ==
    IF s = <<>> THEN 0 ELSE ParseInt(SubSeq(s, 1, Len(s) - 1)) * 10 + DigitValue(s[Len(s)])

\* String.prototype.trim
RECURSIVE TrimLeft(_)
TrimLeft(s) == IF s # <<>> /\ Head(s) = " " THEN TrimLeft(Tail(s)) ELSE s

RECURSIVE TrimRight(_)
TrimRight(s) ==
    IF s # <<>> /\ s[Len(s)] = " " THEN TrimRight(SubSeq(s, 1, Len(s) - 1)) ELSE s

Trim(s) == TrimRight(TrimLeft(s))

\* minutes after midnight that an HH:MM string stands for
MinutesOfDay(t) == ParseInt(BeforeColon(t)) * 60 + ParseInt(AfterColon(t))

---------------------------------------------------------------------------
(* Booking model: methods, statics and hooks *)

\* bookingDateTime: new Date(bookingDate) with setHours(hour, minute) of startTime
bookingDateTime(b) ==
    b.bookingDate * 1440 + ParseInt(BeforeColon(b.startTime)) * 60
        + ParseInt(AfterColon(b.startTime))

\* hoursUntilBooking, kept in minutes
minutesUntilBooking(b, t) == bookingDateTime(b) - t

\* mutant: the comparison written >= instead of >
HoursUntilAtLeast(b, t, h) == minutesUntilBooking(b, t) >= h * 60

\* hoursUntilBooking > h
HoursUntilExceeds(b, t, h) == minutesUntilBooking(b, t) > h * 60

\* mutant: the status test left out
canBeCancelledAnyStatus(b, t) == HoursUntilExceeds(b, t, CancelWindowHours)

canBeCancelled(b, t) ==
    b.status = "confirmed" /\ HoursUntilExceeds(b, t, CancelWindowHours)

\* mutant: the 10% and 50% brackets exchanged
calculateCancellationFeeSwapped(b, t) ==
    IF HoursUntilExceeds(b, t, FeeFreeHours) THEN 0
    ELSE IF HoursUntilExceeds(b, t, FeeLowHours) THEN b.totalAmount \div 2
    ELSE IF HoursUntilExceeds(b, t, FeeHalfHours) THEN b.totalAmount \div 10
    ELSE b.totalAmount

calculateCancellationFee(b, t) ==
    IF HoursUntilExceeds(b, t, FeeFreeHours) THEN 0
    ELSE IF HoursUntilExceeds(b, t, FeeLowHours) THEN b.totalAmount \div 10
    ELSE IF HoursUntilExceeds(b, t, FeeHalfHours) THEN b.totalAmount \div 2
    ELSE b.totalAmount

\* mutant: the query without its status condition
checkAvailabilityAnyStatus(docs, serviceId, date, startTime, endTime, excludeBookingId) ==
    {i \in DOMAIN docs :
        /\ docs[i].service = serviceId
        /\ docs[i].bookingDate = date
        /\ StrLess(docs[i].startTime, endTime)
        /\ StrLess(startTime, docs[i].endTime)
        /\ (excludeBookingId # 0 => i # excludeBookingId)}

\* the query of Booking.checkAvailability: the _ids of the documents it finds
checkAvailability(docs, serviceId, date, startTime, endTime, excludeBookingId) ==
    {i \in DOMAIN docs :
        /\ docs[i].service = serviceId
        /\ docs[i].bookingDate = date
        /\ docs[i].status \in {"confirmed", "pending"}
        /\ StrLess(docs[i].startTime, endTime)
        /\ StrLess(startTime, docs[i].endTime)
        /\ (excludeBookingId # 0 => i # excludeBookingId)}

\* truthiness of the array a find() resolves to: an array is truthy, empty or not
ArrayIsTruthy(found) == TRUE

\* truthiness of booking.rating: the getter of a nested path returns an object,
\* whether or not any of its fields is set, and an object is truthy
NestedPathIsTruthy(nested) == TRUE

\* schema validators that run on save() and under runValidators
SchemaValid(b) ==
    /\ b.status \in Statuses
    /\ b.cancelledBy \in CancelledByTags \cup {"none"}
    /\ Len(b.cancellationReason) <= MaxReasonLength
    /\ b.totalAmount >= 0

\* pre('save') hook: old is the stored document, b the document being saved
preSave(old, b, t) ==
    IF b.status # old.status /\ b.status = "cancelled" /\ b.cancelledBy # "none"
    THEN [b EXCEPT !.cancellationFee = calculateCancellationFee(b, t),
                   !.refundAmount = b.totalAmount - calculateCancellationFee(b, t)]
    ELSE b

---------------------------------------------------------------------------
(* State *)

Idle == [op |-> "none", id |-> 0, result |-> "none"]

Reply(op, id, result) == [op |-> op, id |-> id, result |-> result]

\* no webhook event has been delivered yet
NoDelivery ==
    [gateway |-> "none", body |-> [type |-> "none", ref |-> 0, bookingId |-> 0, amount |-> 0],
     signature |-> <<>>, deliveries |-> 0]

\* mutant: the amount is the unit price, whatever the duration
NewBookingFlatRate(actor, body) ==
    [user |-> actor,
     service |-> body.serviceId,
     provider |-> Services[body.serviceId].provider,
     bookingDate |-> body.bookingDate,
     startTime |-> body.startTime,
     endTime |-> body.endTime,
     duration |-> body.duration,
     status |-> "pending",
     totalAmount |-> Services[body.serviceId].price,
     paymentStatus |-> "pending",
     cancelledBy |-> "none",
     cancellationReason |-> <<>>,
     cancellationFee |-> 0,
     refundAmount |-> 0,
     rating |-> [score |-> 0]]

\* the document Booking.create stores for a request body
NewBooking(actor, body) ==
    [user |-> actor,
     service |-> body.serviceId,
     provider |-> Services[body.serviceId].provider,
     bookingDate |-> body.bookingDate,
     startTime |-> body.startTime,
     endTime |-> body.endTime,
     duration |-> body.duration,
     status |-> "pending",
     totalAmount |-> Services[body.serviceId].price * body.duration,
     paymentStatus |-> "pending",
     cancelledBy |-> "none",
     cancellationReason |-> <<>>,
     cancellationFee |-> 0,
     refundAmount |-> 0,
     rating |-> [score |-> 0]]


(* A handler is an operator from the collection docs, the clock t and the
   request to its outcome: the result sent and the collection afterwards. *)

\* next(new ErrorResponse(...)): the request fails and nothing is stored
Refuse(docs, kind) == [result |-> kind, docs |-> docs]

\* booking.save(): validators, the pre('save') hook, then the write
Save(docs, id, doc, t) ==
    IF SchemaValid(doc)
    THEN [result |-> "ok", docs |-> [docs EXCEPT ![id] = preSave(docs[id], doc, t)]]
    ELSE Refuse(docs, "ValidationError")

\* the owner / provider / admin test shared by updateBooking and both cancel handlers
OwnerProviderOrAdmin(b, actor) ==
    b.user = actor \/ b.provider = actor \/ Role[actor] = "admin"

\* cancelledBy as both cancel handlers derive it from req.user.role
cancelledByRole(actor) ==
    IF Role[actor] = "admin" THEN "admin"
    ELSE IF Role[actor] = "provider" THEN "provider"
    ELSE "user"

---------------------------------------------------------------------------
(* createBooking *)

\* the checks of createBooking up to Booking.create, against the collection docs
createBookingOutcome(docs, actor, body) ==
    IF Role[actor] # "user" THEN "Forbidden"
    ELSE IF body.serviceId \notin DOMAIN Services THEN "ServiceNotFound"
    ELSE IF ~Services[body.serviceId].isActive THEN "ServiceInactive"
    ELSE IF ~ArrayIsTruthy(checkAvailability(docs, body.serviceId, body.bookingDate,
                                             body.startTime, body.endTime, 0))
         THEN "SlotUnavailable"
    ELSE "ok"

\* what the handler's checkAvailability call returned, when it got that far
createBookingFound(docs, actor, body, before) ==
    IF createBookingOutcome(docs, actor, body) \in {"ok", "SlotUnavailable"}
    THEN checkAvailability(docs, body.serviceId, body.bookingDate,
                           body.startTime, body.endTime, 0)
    ELSE before

\* the whole handler, run without interleaving
createBooking(docs, actor, body) ==
    IF createBookingOutcome(docs, actor, body) = "ok"
    THEN [result |-> "ok", docs |-> Append(docs, NewBooking(actor, body))]
    ELSE Refuse(docs, createBookingOutcome(docs, actor, body))

---------------------------------------------------------------------------
(* Lifecycle handlers *)

\* mutant: an admin may accept as well
acceptBookingOrAdmin(docs, t, actor, id) ==
    IF id \notin DOMAIN docs THEN Refuse(docs, "NotFound")
    ELSE IF docs[id].provider # actor /\ Role[actor] # "admin" THEN Refuse(docs, "Unauthorized")
    ELSE IF docs[id].status # "pending" THEN Refuse(docs, "InvalidTransition")
    ELSE Save(docs, id, [docs[id] EXCEPT !.status = "confirmed"], t)

acceptBooking(docs, t, actor, id) ==
    IF id \notin DOMAIN docs THEN Refuse(docs, "NotFound")
    ELSE IF docs[id].provider # actor THEN Refuse(docs, "Unauthorized")
    ELSE IF docs[id].status # "pending" THEN Refuse(docs, "InvalidTransition")
    ELSE Save(docs, id, [docs[id] EXCEPT !.status = "confirmed"], t)

rejectBooking(docs, t, actor, id, reason) ==
    IF id \notin DOMAIN docs THEN Refuse(docs, "NotFound")
    ELSE IF docs[id].provider # actor THEN Refuse(docs, "Unauthorized")
    ELSE IF docs[id].status # "pending" THEN Refuse(docs, "InvalidTransition")
    ELSE IF reason = <<>> \/ Len(Trim(reason)) = 0 THEN Refuse(docs, "ReasonRequired")
    ELSE Save(docs, id,
              [docs[id] EXCEPT !.status = "cancelled",
                               !.cancelledBy = "provider",
                               !.cancellationReason = reason,
                               !.cancellationFee = 0,
                               !.refundAmount = docs[id].totalAmount], t)

completeBooking(docs, t, actor, id) ==
    IF id \notin DOMAIN docs THEN Refuse(docs, "NotFound")
    ELSE IF docs[id].provider # actor THEN Refuse(docs, "Unauthorized")
    ELSE IF docs[id].status # "confirmed" THEN Refuse(docs, "InvalidTransition")
    ELSE Save(docs, id, [docs[id] EXCEPT !.status = "completed"], t)

cancelBooking(docs, t, actor, id, reason) ==
    IF id \notin DOMAIN docs THEN Refuse(docs, "NotFound")
    ELSE IF ~OwnerProviderOrAdmin(docs[id], actor) THEN Refuse(docs, "Unauthorized")
    ELSE IF ~canBeCancelled(docs[id], t) THEN Refuse(docs, "CannotCancel")
    ELSE Save(docs, id,
              [docs[id] EXCEPT
                  !.status = "cancelled",
                  !.cancelledBy = cancelledByRole(actor),
                  !.cancellationReason = reason,
                  !.cancellationFee = calculateCancellationFee(docs[id], t),
                  !.refundAmount = docs[id].totalAmount
                                     - calculateCancellationFee(docs[id], t)], t)

\* the fee cancelBookingUser computes before it saves
userCancellationFee(b, t) ==
    IF b.status = "confirmed" THEN calculateCancellationFee(b, t) ELSE 0

\* mutant: a confirmed booking may be cancelled however close it is
cancelBookingUserAnyTime(docs, t, actor, id, reason) ==
    IF id \notin DOMAIN docs THEN Refuse(docs, "NotFound")
    ELSE IF ~OwnerProviderOrAdmin(docs[id], actor) THEN Refuse(docs, "Unauthorized")
    ELSE IF ~(docs[id].status = "pending" \/ docs[id].status = "confirmed")
         THEN Refuse(docs, "CannotCancel")
    ELSE Save(docs, id,
              [docs[id] EXCEPT
                  !.status = "cancelled",
                  !.cancelledBy = cancelledByRole(actor),
                  !.cancellationReason = reason,
                  !.cancellationFee = userCancellationFee(docs[id], t),
                  !.refundAmount = docs[id].totalAmount
                                     - userCancellationFee(docs[id], t)], t)

cancelBookingUser(docs, t, actor, id, reason) ==
    IF id \notin DOMAIN docs THEN Refuse(docs, "NotFound")
    ELSE IF ~OwnerProviderOrAdmin(docs[id], actor) THEN Refuse(docs, "Unauthorized")
    ELSE IF ~(docs[id].status = "pending"
              \/ (docs[id].status = "confirmed" /\ canBeCancelled(docs[id], t)))
         THEN Refuse(docs, "CannotCancel")
    ELSE Save(docs, id,
              [docs[id] EXCEPT
                  !.status = "cancelled",
                  !.cancelledBy = cancelledByRole(actor),
                  !.cancellationReason = reason,
                  !.cancellationFee = userCancellationFee(docs[id], t),
                  !.refundAmount = docs[id].totalAmount
                                     - userCancellationFee(docs[id], t)], t)

\* mutant: the completed row lets a booking be cancelled
validTransitionsLoose(from) ==
    CASE from = "pending" -> {"confirmed", "cancelled"}
      [] from = "confirmed" -> {"in_progress", "completed", "cancelled", "no_show"}
      [] from = "in_progress" -> {"completed", "cancelled"}
      [] from = "completed" -> {"cancelled"}
      [] OTHER -> {}

\* the table of updateBookingStatus
validTransitions(from) ==
    CASE from = "pending" -> {"confirmed", "cancelled"}
      [] from = "confirmed" -> {"in_progress", "completed", "cancelled", "no_show"}
      [] from = "in_progress" -> {"completed", "cancelled"}
      [] OTHER -> {}

\* the cancellation fields updateBookingStatus sets before it sets the status
withStatusCancellation(b, actor, reason, t) ==
    [b EXCEPT
        !.cancelledBy = IF Role[actor] = "admin" THEN "admin" ELSE "provider",
        !.cancellationReason = reason,
        !.cancellationFee = IF b.status = "confirmed" THEN calculateCancellationFee(b, t) ELSE 0,
        !.refundAmount = IF b.status = "confirmed"
                         THEN b.totalAmount - calculateCancellationFee(b, t)
                         ELSE b.totalAmount]

updateBookingStatus(docs, t, actor, id, status, reason) ==
    IF Role[actor] \notin {"service_provider", "admin"} THEN Refuse(docs, "Forbidden")
    ELSE IF id \notin DOMAIN docs THEN Refuse(docs, "NotFound")
    ELSE IF docs[id].provider # actor /\ Role[actor] # "admin"
         THEN Refuse(docs, "Unauthorized")
    ELSE IF status \notin validTransitions(docs[id].status)
         THEN Refuse(docs, "InvalidTransition")
    ELSE IF status = "cancelled" /\ (reason = <<>> \/ Len(Trim(reason)) = 0)
         THEN Refuse(docs, "ReasonRequired")
    ELSE Save(docs, id,
              [(IF status = "cancelled"
                THEN withStatusCancellation(docs[id], actor, reason, t)
                ELSE docs[id]) EXCEPT !.status = status], t)

\* findByIdAndUpdate(id, req.body, {runValidators}): the fields of body replace the
\* document's; the validators see the body's fields; no save hook runs
applyUpdate(b, body) ==
    [f \in DOMAIN b |-> IF f \in DOMAIN body THEN body[f] ELSE b[f]]

updateValid(body) ==
    /\ "status" \in DOMAIN body => body.status \in Statuses
    /\ "cancelledBy" \in DOMAIN body => body.cancelledBy \in CancelledByTags
    /\ "cancellationReason" \in DOMAIN body => Len(body.cancellationReason) <= MaxReasonLength
    /\ "totalAmount" \in DOMAIN body => body.totalAmount >= 0

updateBooking(docs, t, actor, id, body) ==
    IF id \notin DOMAIN docs THEN Refuse(docs, "NotFound")
    ELSE IF ~OwnerProviderOrAdmin(docs[id], actor) THEN Refuse(docs, "Unauthorized")
    ELSE IF ~canBeCancelled(docs[id], t) THEN Refuse(docs, "CannotUpdate")
    ELSE IF ~updateValid(body) THEN Refuse(docs, "ValidationError")
    ELSE [result |-> "ok", docs |-> [docs EXCEPT ![id] = applyUpdate(docs[id], body)]]

\* POST /:id/rate: authorize('user'), ratingValidation on body.score, then the
\* handler, which tests booking.rating and stores req.body.rating
rateBooking(docs, t, actor, id, body) ==
    IF Role[actor] # "user" THEN Refuse(docs, "Forbidden")
    ELSE IF body.score \notin 1..5 THEN Refuse(docs, "ValidationError")
    ELSE IF id \notin DOMAIN docs THEN Refuse(docs, "NotFound")
    ELSE IF docs[id].user # actor THEN Refuse(docs, "Unauthorized")
    ELSE IF docs[id].status # "completed" THEN Refuse(docs, "NotCompleted")
    ELSE IF NestedPathIsTruthy(docs[id].rating) THEN Refuse(docs, "AlreadyRated")
    ELSE Save(docs, id, [docs[id] EXCEPT !.rating = [score |-> body.rating]], t)

\* a request handled from start to end: its outcome is stored and sent
Handle(op, id, outcome) ==
    /\ bookings' = outcome.docs
    /\ response' = Reply(op, id, outcome.result)
    /\ UNCHANGED <<now, requests, payments, inflight>>

---------------------------------------------------------------------------
(* Inputs *)

T0900 == <<"0", "9", ":", "0", "0">>
T900 == <<"9", ":", "0", "0">>
T1000 == <<"1", "0", ":", "0", "0">>
T1100 == <<"1", "1", ":", "0", "0">>

NoReason == <<>>
BlankReason == <<" ", " ">>
ShortReason == <<"b", "u", "s", "y">>
LongReason == [i \in 1..(MaxReasonLength + 1) |-> "x"]
Reasons == {NoReason, BlankReason, ShortReason, LongReason}

\* the booking the lifecycle specification is about: service s1, day 3, 10:00-11:00, 2 hours
LifecycleBody ==
    [serviceId |-> "s1", bookingDate |-> 3, startTime |-> T1000, endTime |-> T1100,
     duration |-> 2]

\* the same request for the inactive service s2 and for s0, which does not exist
CreateBodies == {[LifecycleBody EXCEPT !.serviceId = s] : s \in {"s1", "s2", "s0"}}

\* the instants at which requests arrive: this many hours before the booking starts
HoursBefore == {50, 30, 24, 2}
Instants == {bookingDateTime(LifecycleBody) - h * 60 : h \in HoursBefore}
FirstInstant == CHOOSE t \in Instants : \A u \in Instants : t <= u

\* request bodies of PUT /api/bookings/:id
UpdateBodies == {[status |-> "pending"], [status |-> "cancelled"], [status |-> "archived"]}

StatusTargets == Statuses \cup {"archived"}

\* request bodies of POST /api/bookings/:id/rate
RateBodies == {[score |-> 5, rating |-> 5], [score |-> 0, rating |-> 0]}

LifecycleIds == 1..MaxLifecycleBookings

---------------------------------------------------------------------------
(* Lifecycle specification *)

\* time passes between two requests
Tick ==
    /\ \E t \in Instants : t > now /\ now' = t
    /\ UNCHANGED <<bookings, response, requests, availability, payments, inflight>>

Init ==
    /\ bookings = <<>>
    /\ now = FirstInstant
    /\ response = Idle
    /\ requests = <<>>
    /\ availability = {}
    /\ payments = <<>>
    /\ inflight = NoDelivery

\* POST /api/bookings
Create(actor, body) ==
    /\ availability' = createBookingFound(bookings, actor, body, availability)
    /\ Handle("createBooking",
              IF createBookingOutcome(bookings, actor, body) = "ok" THEN Len(bookings) + 1 ELSE 0,
              createBooking(bookings, actor, body))

LifecycleCreate ==
    \E a \in Actors, body \in CreateBodies :
        Len(bookings) < MaxLifecycleBookings /\ Create(a, body)

Accept(actor, id) ==
    /\ Handle("acceptBooking", id, acceptBooking(bookings, now, actor, id))
    /\ UNCHANGED availability

Reject(actor, id, reason) ==
    /\ Handle("rejectBooking", id, rejectBooking(bookings, now, actor, id, reason))
    /\ UNCHANGED availability

Complete(actor, id) ==
    /\ Handle("completeBooking", id, completeBooking(bookings, now, actor, id))
    /\ UNCHANGED availability

Cancel(actor, id, reason) ==
    /\ Handle("cancelBooking", id, cancelBooking(bookings, now, actor, id, reason))
    /\ UNCHANGED availability

CancelUser(actor, id, reason) ==
    /\ Handle("cancelBookingUser", id, cancelBookingUser(bookings, now, actor, id, reason))
    /\ UNCHANGED availability

UpdateStatus(actor, id, status, reason) ==
    /\ Handle("updateBookingStatus", id,
              updateBookingStatus(bookings, now, actor, id, status, reason))
    /\ UNCHANGED availability

Update(actor, id, body) ==
    /\ Handle("updateBooking", id, updateBooking(bookings, now, actor, id, body))
    /\ UNCHANGED availability

Rate(actor, id, body) ==
    /\ Handle("rateBooking", id, rateBooking(bookings, now, actor, id, body))
    /\ UNCHANGED availability

LifecycleAccept == \E a \in Actors, id \in LifecycleIds : Accept(a, id)

LifecycleReject == \E a \in Actors, id \in LifecycleIds, r \in Reasons : Reject(a, id, r)

LifecycleComplete == \E a \in Actors, id \in LifecycleIds : Complete(a, id)

LifecycleCancel ==
    \E a \in Actors, id \in LifecycleIds, r \in {ShortReason, LongReason} : Cancel(a, id, r)

LifecycleCancelUser ==
    \E a \in Actors, id \in LifecycleIds, r \in {NoReason, ShortReason} : CancelUser(a, id, r)

LifecycleUpdateStatus ==
    \E a \in Actors, id \in LifecycleIds, st \in StatusTargets :
        \E r \in (IF st = "cancelled" THEN Reasons ELSE {NoReason}) :
            UpdateStatus(a, id, st, r)

LifecycleUpdate ==
    \E a \in Actors, id \in LifecycleIds, body \in UpdateBodies : Update(a, id, body)

LifecycleRate ==
    \E a \in Actors, id \in LifecycleIds, body \in RateBodies : Rate(a, id, body)

Next ==
    \/ LifecycleCreate
    \/ LifecycleAccept
    \/ LifecycleReject
    \/ LifecycleComplete
    \/ LifecycleCancel
    \/ LifecycleCancelUser
    \/ LifecycleUpdateStatus
    \/ LifecycleUpdate
    \/ LifecycleRate
    \/ Tick

Spec == Init /\ [][Next]_vars

---------------------------------------------------------------------------
(* Availability specification: several bookings of overlapping, touching and
   disjoint windows on two services and two days, at a fixed clock *)

\* windows requested: 9:00-10:00 (hour not padded), 10:00-11:00, 09:00-11:00
Windows == {<<T900, T1000>>, <<T1000, T1100>>, <<T0900, T1100>>}

AvailBodies ==
    {[serviceId |-> s, bookingDate |-> d, startTime |-> w[1], endTime |-> w[2], duration |-> 1] :
        s \in {"s1", "s3"}, d \in {3, 4}, w \in Windows}

AvailIds == 1..MaxBookings

AvailCreate ==
    \E body \in AvailBodies : Len(bookings) < MaxBookings /\ Create("u1", body)

AvailAccept == \E id \in AvailIds : id \in DOMAIN bookings /\ Accept("p1", id)

AvailCancel ==
    \E id \in AvailIds : id \in DOMAIN bookings /\ CancelUser("u1", id, NoReason)

NextAvail ==
    \/ AvailCreate
    \/ AvailAccept
    \/ AvailCancel

SpecAvail == Init /\ [][NextAvail]_vars

---------------------------------------------------------------------------
(* Race specification: createBooking as the two steps its awaits separate.
   A request is [actor, body, seen, pc, id]: seen is the number of documents in
   the collection when its availability query ran, id the _id it was stored
   under (0 until then). *)

\* up to and including await Booking.checkAvailability(...)
createBookingCheck(actor, body) ==
    /\ availability' = createBookingFound(bookings, actor, body, availability)
    /\ IF createBookingOutcome(bookings, actor, body) = "ok"
       THEN /\ requests' = Append(requests, [actor |-> actor, body |-> body,
                                             seen |-> Len(bookings), pc |-> "checked", id |-> 0])
            /\ UNCHANGED response
       ELSE /\ requests' = Append(requests, [actor |-> actor, body |-> body,
                                             seen |-> Len(bookings), pc |-> "failed", id |-> 0])
            /\ response' = Reply("createBooking", 0, createBookingOutcome(bookings, actor, body))
    /\ UNCHANGED <<bookings, now, payments, inflight>>

\* await Booking.create(bookingData) and the 201 response
createBookingPersist(k) ==
    /\ k \in DOMAIN requests
    /\ requests[k].pc = "checked"
    /\ bookings' = Append(bookings, NewBooking(requests[k].actor, requests[k].body))
    /\ requests' = [requests EXCEPT ![k].pc = "done", ![k].id = Len(bookings) + 1]
    /\ response' = Reply("createBooking", Len(bookings) + 1, "ok")
    /\ UNCHANGED <<now, availability, payments, inflight>>

RaceCheck ==
    \E body \in AvailBodies : Len(requests) < MaxRequests /\ createBookingCheck("u1", body)

RacePersist == \E k \in 1..MaxRequests : createBookingPersist(k)

NextRace ==
    \/ RaceCheck
    \/ RacePersist

SpecRace == Init /\ [][NextRace]_vars

---------------------------------------------------------------------------
(* Steps specification: a lifecycle handler as the two steps its awaits
   separate, await Booking.findById(...) and await booking.save(). Between the
   two the handler holds the document it read; other requests may run.
   A request is [op, actor, id, reason, read, pc]: read is the collection as
   the handler's findById saw it. *)

\* the handler named op, run on the collection docs
lifecycleOutcome(op, docs, t, actor, id, reason) ==
    CASE op = "acceptBooking" -> acceptBooking(docs, t, actor, id)
      [] op = "rejectBooking" -> rejectBooking(docs, t, actor, id, reason)
      [] op = "completeBooking" -> completeBooking(docs, t, actor, id)
      [] op = "cancelBookingUser" -> cancelBookingUser(docs, t, actor, id, reason)
      [] OTHER -> Refuse(docs, "NotFound")

\* booking.save() of a document that was read as read and is now doc: the
\* update it sends sets the paths whose value changed, on the document as stored
saveModified(stored, read, doc) ==
    [f \in DOMAIN stored |-> IF doc[f] # read[f] THEN doc[f] ELSE stored[f]]

\* the requests that interleave: the provider's and the customer's
StepRequests ==
    {[op |-> "acceptBooking", actor |-> "p1", reason |-> NoReason],
     [op |-> "rejectBooking", actor |-> "p1", reason |-> ShortReason],
     [op |-> "completeBooking", actor |-> "p1", reason |-> NoReason],
     [op |-> "cancelBookingUser", actor |-> "u1", reason |-> NoReason]}

StepInstants == {bookingDateTime(LifecycleBody) - h * 60 : h \in {50, 30}}

InitSteps ==
    /\ \E st \in {"pending", "confirmed"} :
          bookings = <<[NewBooking("u1", LifecycleBody) EXCEPT !.status = st]>>
    /\ now \in StepInstants
    /\ response = Idle
    /\ requests = <<>>
    /\ availability = {}
    /\ payments = <<>>
    /\ inflight = NoDelivery

\* up to and including await Booking.findById(req.params.id)
lifecycleRead(rq, id) ==
    /\ requests' = Append(requests, [op |-> rq.op, actor |-> rq.actor, id |-> id,
                                     reason |-> rq.reason, read |-> bookings, pc |-> "read"])
    /\ UNCHANGED <<bookings, now, response, availability, payments, inflight>>

\* the checks on the document read, its assignments, await booking.save() and the response
lifecycleSave(k) ==
    /\ k \in DOMAIN requests
    /\ requests[k].pc = "read"
    /\ LET rq == requests[k]
           out == lifecycleOutcome(rq.op, rq.read, now, rq.actor, rq.id, rq.reason)
       IN /\ bookings' = IF out.result = "ok"
                         THEN [bookings EXCEPT ![rq.id] =
                                  saveModified(bookings[rq.id], rq.read[rq.id], out.docs[rq.id])]
                         ELSE bookings
          /\ response' = Reply(rq.op, rq.id, out.result)
    /\ requests' = [requests EXCEPT ![k].pc = "done"]
    /\ UNCHANGED <<now, availability, payments, inflight>>

StepsRead ==
    \E rq \in StepRequests, id \in LifecycleIds :
        Len(requests) < MaxRequests /\ lifecycleRead(rq, id)

StepsSave == \E k \in 1..MaxRequests : lifecycleSave(k)

NextSteps ==
    \/ StepsRead
    \/ StepsSave

SpecSteps == InitSteps /\ [][NextSteps]_vars

---------------------------------------------------------------------------
(* Edit specification: one booking, created for a window the client chose and
   edited through PUT /api/bookings/:id with bodies that name any field of the
   schema. The two validation chains test the format of startTime and endTime
   only, and every time of the model has that format. *)

\* request bodies of POST /api/bookings: 10:00-11:00, 11:00-10:00, 10:00-10:00
EditCreateBodies ==
    {[LifecycleBody EXCEPT !.startTime = w[1], !.endTime = w[2]] :
        w \in {<<T1000, T1100>>, <<T1100, T1000>>, <<T1000, T1000>>}}

\* request bodies of PUT /api/bookings/:id
EditBodies ==
    {[startTime |-> T1100],
     [startTime |-> T0900, endTime |-> T1000],
     [totalAmount |-> 5],
     [totalAmount |-> 0 - 5],
     [cancellationFee |-> 10],
     [cancelledBy |-> "user", cancellationReason |-> ShortReason],
     [status |-> "cancelled", cancellationFee |-> 500],
     [status |-> "cancelled", refundAmount |-> 0 - 1]}

EditCreate ==
    \E body \in EditCreateBodies : Len(bookings) < MaxLifecycleBookings /\ Create("u1", body)

EditUpdate ==
    \E a \in Actors, id \in LifecycleIds, body \in EditBodies : Update(a, id, body)

EditAccept == \E id \in LifecycleIds : Accept("p1", id)

EditComplete == \E id \in LifecycleIds : Complete("p1", id)

EditCancel == \E id \in LifecycleIds : Cancel("u1", id, ShortReason)

NextEdit ==
    \/ EditCreate
    \/ EditUpdate
    \/ EditAccept
    \/ EditComplete
    \/ EditCancel
    \/ Tick

SpecEdit == Init /\ [][NextEdit]_vars

---------------------------------------------------------------------------
(* Fee specification: one confirmed booking, the clock anywhere from
   MaxHoursAhead hours before its start to MaxHoursPast hours after it,
   and the handlers that apply calculateCancellationFee to it *)

FeeBodies == {[LifecycleBody EXCEPT !.duration = d] : d \in {1, 2}}

\* minutes until the booking starts: whole hours, one minute past, half past
FeeMinutes == {h * 60 + m : h \in (0 - MaxHoursPast)..MaxHoursAhead, m \in {0, 1, 30}}

InitFee ==
    /\ \E body \in FeeBodies :
          bookings = <<[NewBooking("u1", body) EXCEPT !.status = "confirmed"]>>
    /\ \E m \in FeeMinutes : now = bookingDateTime(LifecycleBody) - m
    /\ response = Idle
    /\ requests = <<>>
    /\ availability = {}
    /\ payments = <<>>
    /\ inflight = NoDelivery

FeeStatusCancel == \E a \in {"p1", "a1"} : UpdateStatus(a, 1, "cancelled", ShortReason)

FeeCancel == \E a \in {"u1", "a1"} : Cancel(a, 1, ShortReason)

FeeCancelUser == \E a \in {"u1", "p1"} : CancelUser(a, 1, NoReason)

NextFee ==
    \/ FeeStatusCancel
    \/ FeeCancel
    \/ FeeCancelUser

SpecFee == InitFee /\ [][NextFee]_vars

---------------------------------------------------------------------------
(* Payment gateways: Stripe (paymentController) and Razorpay
   (razorpayController).  Gateway amounts are in minor units (cents, paise);
   a Stripe payment intent has a positive id below 10, a Razorpay order id
   is above 10, a Razorpay payment id above 20; 0 stands for an absent id. *)

StripeWebhookSecret == "STRIPE_WEBHOOK_SECRET"
RazorpayKeySecret == "RAZORPAY_KEY_SECRET"
RazorpayWebhookSecret == "RAZORPAY_WEBHOOK_SECRET"

\* HMAC-SHA256 of a message under a key: equal digests only for equal keys and messages
Hmac(secret, message) == <<secret, message>>

MissingSignature == <<>>

\* mutant: any signature that is present passes
SignatureMatchesAny(expected, given) == given # MissingSignature

\* expectedSignature === signature
SignatureMatches(expected, given) == expected = given

\* the document Payment.create stores
NewPayment(user, intentId, orderId, amount, status) ==
    [user |-> user,
     booking |-> 0,
     paymentIntentId |-> intentId,
     razorpayOrderId |-> orderId,
     razorpayPaymentId |-> 0,
     amount |-> amount,
     status |-> status,
     refundAmount |-> 0,
     capturedAt |-> 0]

\* Payment.findOne({field: value}): the _id of the first match, 0 if there is none
FindOne(pays, field, value) ==
    IF \E i \in DOMAIN pays : pays[i][field] = value
    THEN CHOOSE i \in DOMAIN pays :
            /\ pays[i][field] = value
            /\ \A j \in 1..(i - 1) : pays[j][field] # value
    ELSE 0

\* mutant: a paid booking is confirmed along the way
setPaymentStatusAdvancing(docs, bookingId, value) ==
    IF bookingId \in DOMAIN docs
    THEN [docs EXCEPT ![bookingId].paymentStatus = value,
                      ![bookingId].status = IF value = "paid" THEN "confirmed" ELSE @]
    ELSE docs

\* Booking.findByIdAndUpdate(bookingId, {paymentStatus: value}); nothing happens
\* when no booking has that id
setPaymentStatus(docs, bookingId, value) ==
    IF bookingId \in DOMAIN docs
    THEN [docs EXCEPT ![bookingId].paymentStatus = value]
    ELSE docs

\* the outcome of a payment handler: the result sent and both collections afterwards
PayRefuse(docs, pays, kind) == [result |-> kind, docs |-> docs, pays |-> pays]

PayDone(docs, pays, kind) == [result |-> kind, docs |-> docs, pays |-> pays]

---------------------------------------------------------------------------
(* Stripe *)

confirmPayment(docs, pays, actor, intent, gatewayStatus) ==
    IF Role[actor] # "user" THEN PayRefuse(docs, pays, "Forbidden")
    ELSE IF gatewayStatus # "succeeded" THEN PayRefuse(docs, pays, "ConfirmationFailed")
    ELSE IF FindOne(pays, "paymentIntentId", intent.ref) # 0
         THEN PayRefuse(docs, pays, "DuplicateKey")
    ELSE PayDone(IF intent.bookingId # 0
                 THEN setPaymentStatus(docs, intent.bookingId, "paid")
                 ELSE docs,
                 Append(pays, NewPayment(actor, intent.ref, 0, intent.amount \div 100,
                                         "completed")),
                 "ok")

refundPayment(docs, pays, actor, paymentId, gatewayOk) ==
    IF Role[actor] # "admin" THEN PayRefuse(docs, pays, "Forbidden")
    ELSE IF paymentId \notin DOMAIN pays THEN PayRefuse(docs, pays, "NotFound")
    ELSE IF ~gatewayOk THEN PayRefuse(docs, pays, "GatewayError")
    ELSE PayDone(IF pays[paymentId].booking # 0
                 THEN setPaymentStatus(docs, pays[paymentId].booking, "refunded")
                 ELSE docs,
                 [pays EXCEPT ![paymentId].status = "refunded",
                              ![paymentId].refundAmount = pays[paymentId].amount],
                 "ok")

handlePaymentSuccess(docs, pays, paymentIntent) ==
    PayDone(IF paymentIntent.bookingId # 0
            THEN setPaymentStatus(docs, paymentIntent.bookingId, "paid")
            ELSE docs,
            IF FindOne(pays, "paymentIntentId", paymentIntent.ref) # 0
            THEN [pays EXCEPT ![FindOne(pays, "paymentIntentId", paymentIntent.ref)].status
                                  = "completed"]
            ELSE pays,
            "received")

handlePaymentFailure(docs, pays, paymentIntent) ==
    PayDone(IF paymentIntent.bookingId # 0
            THEN setPaymentStatus(docs, paymentIntent.bookingId, "failed")
            ELSE docs,
            IF FindOne(pays, "paymentIntentId", paymentIntent.ref) # 0
            THEN [pays EXCEPT ![FindOne(pays, "paymentIntentId", paymentIntent.ref)].status
                                  = "failed"]
            ELSE pays,
            "received")

handleRefund(docs, pays, charge) ==
    PayDone(docs,
            IF FindOne(pays, "paymentIntentId", charge.ref) # 0
            THEN [pays EXCEPT
                     ![FindOne(pays, "paymentIntentId", charge.ref)].status = "refunded",
                     ![FindOne(pays, "paymentIntentId", charge.ref)].refundAmount
                         = charge.amount \div 100]
            ELSE pays,
            "received")

\* stripe.webhooks.constructEvent throws unless the header signs the body; then the
\* switch on event.type
handleWebhook(docs, pays, body, sig) ==
    IF sig = MissingSignature \/ ~SignatureMatches(Hmac(StripeWebhookSecret, body), sig)
    THEN PayRefuse(docs, pays, "WebhookError")
    ELSE CASE body.type = "payment_intent.succeeded" -> handlePaymentSuccess(docs, pays, body)
           [] body.type = "payment_intent.payment_failed" -> handlePaymentFailure(docs, pays, body)
           [] body.type = "charge.refunded" -> handleRefund(docs, pays, body)
           [] OTHER -> PayDone(docs, pays, "received")

---------------------------------------------------------------------------
(* Razorpay *)

\* the id razorpay.orders.create gives the next order
NextOrderId(pays) == 10 + Len(pays) + 1

createRazorpayOrder(docs, pays, actor, amount) ==
    IF Role[actor] # "user" THEN PayRefuse(docs, pays, "Forbidden")
    ELSE IF amount < 1 THEN PayRefuse(docs, pays, "ValidationError")
    ELSE PayDone(docs,
                 Append(pays, NewPayment(actor, NextOrderId(pays), NextOrderId(pays),
                                         amount, "pending")),
                 "ok")

verifyRazorpayPayment(docs, pays, actor, orderId, paymentId, signature) ==
    IF Role[actor] # "user" THEN PayRefuse(docs, pays, "Forbidden")
    ELSE IF orderId = 0 \/ paymentId = 0 \/ signature = MissingSignature
         THEN PayRefuse(docs, pays, "MissingParameters")
    ELSE IF ~SignatureMatches(Hmac(RazorpayKeySecret, <<orderId, paymentId>>), signature)
         THEN PayRefuse(docs, pays, "InvalidSignature")
    ELSE IF FindOne(pays, "razorpayOrderId", orderId) = 0
         THEN PayRefuse(docs, pays, "NotFound")
    ELSE IF FindOne(pays, "razorpayPaymentId", paymentId)
               \notin {0, FindOne(pays, "razorpayOrderId", orderId)}
         THEN PayRefuse(docs, pays, "VerificationFailed")
    ELSE PayDone(IF pays[FindOne(pays, "razorpayOrderId", orderId)].booking # 0
                 THEN setPaymentStatus(docs,
                                       pays[FindOne(pays, "razorpayOrderId", orderId)].booking,
                                       "paid")
                 ELSE docs,
                 [pays EXCEPT
                     ![FindOne(pays, "razorpayOrderId", orderId)].razorpayPaymentId = paymentId,
                     ![FindOne(pays, "razorpayOrderId", orderId)].status = "completed"],
                 "ok")

refundRazorpayPayment(docs, pays, actor, paymentId, amount, gatewayOk) ==
    IF Role[actor] # "admin" THEN PayRefuse(docs, pays, "Forbidden")
    ELSE IF ~gatewayOk THEN PayRefuse(docs, pays, "RefundFailed")
    ELSE IF FindOne(pays, "razorpayPaymentId", paymentId) = 0
         THEN PayRefuse(docs, pays, "NotFound")
    ELSE PayDone(IF pays[FindOne(pays, "razorpayPaymentId", paymentId)].booking # 0
                 THEN setPaymentStatus(docs,
                                       pays[FindOne(pays, "razorpayPaymentId", paymentId)].booking,
                                       "refunded")
                 ELSE docs,
                 [pays EXCEPT
                     ![FindOne(pays, "razorpayPaymentId", paymentId)].status = "refunded",
                     ![FindOne(pays, "razorpayPaymentId", paymentId)].refundAmount
                         = IF amount # 0 THEN amount
                           ELSE pays[FindOne(pays, "razorpayPaymentId", paymentId)].amount],
                 "ok")

\* mutant: every capture adds the captured amount to the record
handlePaymentCapturedAdding(docs, pays, t, payment) ==
    IF FindOne(pays, "razorpayPaymentId", payment.ref) = 0
    THEN PayDone(docs, pays, "received")
    ELSE PayDone(IF pays[FindOne(pays, "razorpayPaymentId", payment.ref)].booking # 0
                 THEN setPaymentStatus(docs,
                                       pays[FindOne(pays, "razorpayPaymentId", payment.ref)].booking,
                                       "paid")
                 ELSE docs,
                 [pays EXCEPT
                     ![FindOne(pays, "razorpayPaymentId", payment.ref)].status = "completed",
                     ![FindOne(pays, "razorpayPaymentId", payment.ref)].amount
                         = @ + payment.amount \div 100,
                     ![FindOne(pays, "razorpayPaymentId", payment.ref)].capturedAt = t],
                 "received")

handlePaymentCaptured(docs, pays, t, payment) ==
    IF FindOne(pays, "razorpayPaymentId", payment.ref) = 0
    THEN PayDone(docs, pays, "received")
    ELSE PayDone(IF pays[FindOne(pays, "razorpayPaymentId", payment.ref)].booking # 0
                 THEN setPaymentStatus(docs,
                                       pays[FindOne(pays, "razorpayPaymentId", payment.ref)].booking,
                                       "paid")
                 ELSE docs,
                 [pays EXCEPT
                     ![FindOne(pays, "razorpayPaymentId", payment.ref)].status = "completed",
                     ![FindOne(pays, "razorpayPaymentId", payment.ref)].capturedAt = t],
                 "received")

handlePaymentFailed(docs, pays, payment) ==
    IF FindOne(pays, "razorpayPaymentId", payment.ref) = 0
    THEN PayDone(docs, pays, "received")
    ELSE PayDone(IF pays[FindOne(pays, "razorpayPaymentId", payment.ref)].booking # 0
                 THEN setPaymentStatus(docs,
                                       pays[FindOne(pays, "razorpayPaymentId", payment.ref)].booking,
                                       "failed")
                 ELSE docs,
                 [pays EXCEPT ![FindOne(pays, "razorpayPaymentId", payment.ref)].status = "failed"],
                 "received")

handleRefundProcessed(docs, pays, refund) ==
    IF FindOne(pays, "razorpayPaymentId", refund.ref) = 0
    THEN PayDone(docs, pays, "received")
    ELSE PayDone(IF pays[FindOne(pays, "razorpayPaymentId", refund.ref)].booking # 0
                 THEN setPaymentStatus(docs,
                                       pays[FindOne(pays, "razorpayPaymentId", refund.ref)].booking,
                                       "refunded")
                 ELSE docs,
                 [pays EXCEPT
                     ![FindOne(pays, "razorpayPaymentId", refund.ref)].status = "refunded",
                     ![FindOne(pays, "razorpayPaymentId", refund.ref)].refundAmount
                         = refund.amount \div 100],
                 "received")

handleRazorpayWebhook(docs, pays, t, body, signature) ==
    IF signature = MissingSignature THEN PayRefuse(docs, pays, "MissingSignature")
    ELSE IF ~SignatureMatches(Hmac(RazorpayWebhookSecret, body), signature)
         THEN PayRefuse(docs, pays, "InvalidSignature")
    ELSE CASE body.type = "payment.captured" -> handlePaymentCaptured(docs, pays, t, body)
           [] body.type = "payment.failed" -> handlePaymentFailed(docs, pays, body)
           [] body.type = "refund.processed" -> handleRefundProcessed(docs, pays, body)
           [] OTHER -> PayDone(docs, pays, "received")

---------------------------------------------------------------------------
(* Payment specification: one booking, the payment requests of both
   gateways, and webhook events that the gateway may deliver again *)

\* a payment request handled from start to end; delivery is the webhook event it
\* applied, NoDelivery for a refused event and for any other request
PayHandle(op, id, outcome, delivery) ==
    /\ bookings' = outcome.docs
    /\ payments' = outcome.pays
    /\ response' = Reply(op, id, outcome.result)
    /\ inflight' = IF outcome.result = "received" THEN delivery ELSE NoDelivery
    /\ UNCHANGED <<now, requests, availability>>

Delivery(gateway, body, signature, n) ==
    [gateway |-> gateway, body |-> body, signature |-> signature, deliveries |-> n]

\* the payment of every order and intent of the model, in major and minor units
GatewayAmount == 100
MinorUnits == 100

\* Stripe payment intents: metadata.bookingId names booking 1 or is absent
StripeIntents ==
    {[type |-> "payment_intent", ref |-> 1, bookingId |-> b,
      amount |-> GatewayAmount * MinorUnits] : b \in {0, 1}}

StripeEvents ==
    {[type |-> ty, ref |-> 1, bookingId |-> b, amount |-> GatewayAmount * MinorUnits] :
        ty \in {"payment_intent.succeeded", "payment_intent.payment_failed",
                "charge.refunded", "customer.created"},
        b \in {0, 1}}

RazorpayPaymentIds == {21}

RazorpayEvents ==
    {[type |-> ty, ref |-> 21, bookingId |-> 0, amount |-> GatewayAmount * MinorUnits] :
        ty \in {"payment.captured", "payment.failed", "refund.processed", "order.paid"}}

\* what a sender may put in the signature header of a body: nothing, the gateway's
\* signature, a signature under a guessed key, the gateway's signature of another body
Signatures(secret, body) ==
    {MissingSignature, Hmac(secret, body), Hmac("guess", body),
     Hmac(secret, [body EXCEPT !.amount = 1])}

\* the instants at which a delivered event may be delivered again
PayInstants == {bookingDateTime(LifecycleBody) - h * 60 : h \in {30, 24}}

InitPay ==
    /\ \E st \in {"pending", "confirmed"} :
          bookings = <<[NewBooking("u1", LifecycleBody) EXCEPT !.status = st]>>
    /\ now = bookingDateTime(LifecycleBody) - 30 * 60
    /\ response = Idle
    /\ requests = <<>>
    /\ availability = {}
    /\ payments = <<>>
    /\ inflight = NoDelivery

PayCancel == CancelUser("u1", 1, NoReason)

StripeConfirm(actor, intent, gatewayStatus) ==
    PayHandle("confirmPayment", 0,
              confirmPayment(bookings, payments, actor, intent, gatewayStatus), NoDelivery)

StripeRefund(actor, paymentId, gatewayOk) ==
    PayHandle("refundPayment", 0,
              refundPayment(bookings, payments, actor, paymentId, gatewayOk), NoDelivery)

StripeWebhook(body, sig) ==
    PayHandle("handleWebhook", 0, handleWebhook(bookings, payments, body, sig),
              Delivery("stripe", body, sig, 1))

RazorpayCreateOrder(actor, amount) ==
    PayHandle("createRazorpayOrder", 0,
              createRazorpayOrder(bookings, payments, actor, amount), NoDelivery)

RazorpayVerify(actor, orderId, paymentId, signature) ==
    PayHandle("verifyRazorpayPayment", 0,
              verifyRazorpayPayment(bookings, payments, actor, orderId, paymentId, signature),
              NoDelivery)

RazorpayRefund(actor, paymentId, amount, gatewayOk) ==
    PayHandle("refundRazorpayPayment", 0,
              refundRazorpayPayment(bookings, payments, actor, paymentId, amount, gatewayOk),
              NoDelivery)

RazorpayWebhook(body, signature) ==
    PayHandle("handleRazorpayWebhook", 0,
              handleRazorpayWebhook(bookings, payments, now, body, signature),
              Delivery("razorpay", body, signature, 1))

\* the gateway delivers the event it just delivered once more, body and signature
\* as before
Redeliver ==
    /\ inflight.gateway # "none"
    /\ inflight.deliveries < MaxDeliveries
    /\ IF inflight.gateway = "stripe"
       THEN PayHandle("handleWebhook", 0,
                      handleWebhook(bookings, payments, inflight.body, inflight.signature),
                      [inflight EXCEPT !.deliveries = @ + 1])
       ELSE PayHandle("handleRazorpayWebhook", 0,
                      handleRazorpayWebhook(bookings, payments, now, inflight.body,
                                            inflight.signature),
                      [inflight EXCEPT !.deliveries = @ + 1])

PayConfirm ==
    \E a \in {"u1", "a1"}, intent \in StripeIntents, st \in {"succeeded", "requires_action"} :
        Len(payments) < MaxPayments /\ StripeConfirm(a, intent, st)

PayRefund ==
    \E a \in {"u1", "a1"}, pid \in 1..MaxPayments, ok \in BOOLEAN : StripeRefund(a, pid, ok)

PayStripeWebhook ==
    \E body \in StripeEvents :
        \E sig \in Signatures(StripeWebhookSecret, body) : StripeWebhook(body, sig)

PayCreateOrder ==
    \E a \in {"u1", "a1"}, amount \in {0, GatewayAmount} :
        Len(payments) < MaxPayments /\ RazorpayCreateOrder(a, amount)

PayVerify ==
    \E a \in {"u1", "a1"}, orderId \in {0} \cup {10 + k : k \in 1..MaxPayments},
       paymentId \in {0} \cup RazorpayPaymentIds :
        \E sig \in {MissingSignature, Hmac("guess", <<orderId, paymentId>>),
                    Hmac(RazorpayKeySecret, <<orderId, paymentId>>)} :
            RazorpayVerify(a, orderId, paymentId, sig)

PayRazorpayRefund ==
    \E a \in {"u1", "a1"}, paymentId \in RazorpayPaymentIds, amount \in {0, 50},
       ok \in BOOLEAN :
        RazorpayRefund(a, paymentId, amount, ok)

PayRazorpayWebhook ==
    \E body \in RazorpayEvents :
        \E sig \in Signatures(RazorpayWebhookSecret, body) : RazorpayWebhook(body, sig)

NextPay ==
    \/ PayConfirm
    \/ PayRefund
    \/ PayStripeWebhook
    \/ PayCreateOrder
    \/ PayVerify
    \/ PayRazorpayRefund
    \/ PayRazorpayWebhook
    \/ Redeliver
    \/ PayCancel

SpecPay == InitPay /\ [][NextPay]_vars

---------------------------------------------------------------------------
(* Repository specification: the payment specification, with Razorpay webhook
   events that arrive while a repository operation fails. failure names the
   call that throws while the event is applied, "none" when none does. *)

RepoFailures == {"none", "Payment.findOneAndUpdate", "Payment.findOne",
                 "Booking.findByIdAndUpdate"}

\* handlePaymentCaptured / handlePaymentFailed / handleRefundProcessed with a
\* failing call: whatever was written before the call that throws stays written,
\* the catch block logs the error and the helper returns normally
applyRazorpayEvent(docs, pays, t, body, failure) ==
    LET out == CASE body.type = "payment.captured" -> handlePaymentCaptured(docs, pays, t, body)
                 [] body.type = "payment.failed" -> handlePaymentFailed(docs, pays, body)
                 [] body.type = "refund.processed" -> handleRefundProcessed(docs, pays, body)
                 [] OTHER -> PayDone(docs, pays, "received")
    IN CASE failure = "Payment.findOneAndUpdate" -> PayDone(docs, pays, "received")
         [] failure = "Payment.findOne" -> PayDone(docs, out.pays, "received")
         [] failure = "Booking.findByIdAndUpdate" -> PayDone(docs, out.pays, "received")
         [] OTHER -> out

\* handleRazorpayWebhook while the repository behaves as failure says: its own
\* catch block answers 500, but no error of a helper reaches it
handleRazorpayWebhookRepo(docs, pays, t, body, signature, failure) ==
    IF signature = MissingSignature THEN PayRefuse(docs, pays, "MissingSignature")
    ELSE IF ~SignatureMatches(Hmac(RazorpayWebhookSecret, body), signature)
         THEN PayRefuse(docs, pays, "InvalidSignature")
    ELSE IF body.type \in {"payment.captured", "payment.failed", "refund.processed"}
         THEN applyRazorpayEvent(docs, pays, t, body, failure)
    ELSE PayDone(docs, pays, "received")

RazorpayWebhookRepo(body, signature, failure) ==
    PayHandle("handleRazorpayWebhook", 0,
              handleRazorpayWebhookRepo(bookings, payments, now, body, signature, failure),
              Delivery("razorpay", body, signature, 1))

RepoRazorpayWebhook ==
    \E body \in RazorpayEvents, failure \in RepoFailures \ {"none"} :
        RazorpayWebhookRepo(body, Hmac(RazorpayWebhookSecret, body), failure)

NextRepo ==
    \/ PayConfirm
    \/ PayRefund
    \/ PayStripeWebhook
    \/ PayCreateOrder
    \/ PayVerify
    \/ PayRazorpayRefund
    \/ PayRazorpayWebhook
    \/ Redeliver
    \/ PayCancel
    \/ RepoRazorpayWebhook

SpecRepo == InitPay /\ [][NextRepo]_vars

---------------------------------------------------------------------------
(* Claims about availability and creation *)

\* half-open windows [s1, e1) and [s2, e2) of the same day overlap
WindowsOverlap(s1, e1, s2, e2) ==
    MinutesOfDay(s1) < MinutesOfDay(e2) /\ MinutesOfDay(s2) < MinutesOfDay(e1)

BlocksSlot(b) == b.status \in {"pending", "confirmed"}

SameSlotDay(a, b) == a.service = b.service /\ a.bookingDate = b.bookingDate

\* C1: no two pending/confirmed bookings of the same service and date have
\* overlapping windows; a createBooking for an overlapping window is refused with
\* SlotUnavailable and stores nothing.
C1_NoOverlappingBookings ==
    \A i, j \in DOMAIN bookings :
        (i < j /\ SameSlotDay(bookings[i], bookings[j])
               /\ BlocksSlot(bookings[i]) /\ BlocksSlot(bookings[j]))
        => ~WindowsOverlap(bookings[i].startTime, bookings[i].endTime,
                           bookings[j].startTime, bookings[j].endTime)

\* the bookings that were stored before the newest one and conflict with it
ConflictsOfNewest ==
    {i \in 1..(Len(bookings) - 1) :
        /\ SameSlotDay(bookings[i], bookings[Len(bookings)])
        /\ BlocksSlot(bookings[i])
        /\ WindowsOverlap(bookings[Len(bookings)].startTime, bookings[Len(bookings)].endTime,
                          bookings[i].startTime, bookings[i].endTime)}

\* C2: the availability check run for a request reports as conflicts exactly the
\* pending/confirmed bookings of that service and date whose window (s2, e2)
\* satisfies s1 < e2 and s2 < e1 for the requested window (s1, e1); touching and
\* disjoint windows are not reported.
C2_ConflictIffOverlap ==
    (response.op = "createBooking" /\ response.result = "ok")
        => availability = ConflictsOfNewest

\* two requests of SpecRace both ran their availability query before either was stored
RanConcurrently(r1, r2) ==
    /\ r1.pc = "done" /\ r2.pc = "done"
    /\ r1.seen < r2.id /\ r2.seen < r1.id

\* C3: of two concurrent createBooking requests for the same service, date and
\* overlapping windows that both ran the availability check before either was
\* stored, exactly one is stored; the other fails with SlotUnavailable.
C3_RaceHasOneWinner ==
    \A i, j \in DOMAIN requests :
        (i < j /\ requests[i].body.serviceId = requests[j].body.serviceId
               /\ requests[i].body.bookingDate = requests[j].body.bookingDate
               /\ WindowsOverlap(requests[i].body.startTime, requests[i].body.endTime,
                                 requests[j].body.startTime, requests[j].body.endTime))
        => ~RanConcurrently(requests[i], requests[j])

---------------------------------------------------------------------------
(* Claims about the status state machine *)

\* the transition table of the specification, as (from, to) pairs
TransitionTable ==
    {<<"pending", "confirmed">>, <<"pending", "cancelled">>,
     <<"confirmed", "in_progress">>, <<"confirmed", "completed">>,
     <<"confirmed", "cancelled">>, <<"confirmed", "no_show">>,
     <<"in_progress", "completed">>, <<"in_progress", "cancelled">>}

IsBlank(r) == \A i \in 1..Len(r) : r[i] = " "

MayUpdateStatus(b, a) == b.provider = a \/ Role[a] = "admin"

\* C4 as claimed: updateBookingStatus by the provider or an admin fails with
\* InvalidTransition and changes nothing for every pair outside the table, and
\* succeeds with status = target for every pair in the table.
C4_TableAloneDecides ==
    \A a \in Actors, id \in DOMAIN bookings, st \in StatusTargets, r \in Reasons :
        MayUpdateStatus(bookings[id], a)
        => LET out == updateBookingStatus(bookings, now, a, id, st, r) IN
           IF <<bookings[id].status, st>> \in TransitionTable
           THEN out.result = "ok" /\ out.docs[id].status = st
           ELSE out.result = "InvalidTransition" /\ out.docs = bookings

\* C4 as amended: as above, except that a transition to cancelled also needs a
\* reason that is not blank and not longer than 200 characters; without one the
\* call fails and the booking is unchanged.
C4_TableAndReasonDecide ==
    \A a \in Actors, id \in DOMAIN bookings, st \in StatusTargets, r \in Reasons :
        MayUpdateStatus(bookings[id], a)
        => LET out == updateBookingStatus(bookings, now, a, id, st, r) IN
           IF <<bookings[id].status, st>> \notin TransitionTable
           THEN out.result = "InvalidTransition" /\ out.docs = bookings
           ELSE IF st = "cancelled" /\ (IsBlank(r) \/ Len(r) > 200)
           THEN out.result \in {"ReasonRequired", "ValidationError"} /\ out.docs = bookings
           ELSE out.result = "ok" /\ out.docs[id].status = st

\* an admin moved a booking to cancelled through updateBookingStatus
C4_Witness ==
    /\ response.op = "updateBookingStatus" /\ response.result = "ok"
    /\ bookings[response.id].status = "cancelled"
    /\ bookings[response.id].cancelledBy = "admin"

\* C5: every booking starts pending and every change of its status, by whatever
\* operation, is a (from, to) pair of the transition table.
C5_StatusFollowsTable ==
    [][\A id \in DOMAIN bookings' :
          IF id \in DOMAIN bookings
          THEN \/ bookings'[id].status = bookings[id].status
               \/ <<bookings[id].status, bookings'[id].status>> \in TransitionTable
          ELSE bookings'[id].status = "pending"]_vars

CancellationFields(b) == <<b.status, b.cancelledBy, b.cancellationFee, b.refundAmount>>

\* C6: on a completed, cancelled or no_show booking every attempt to cancel,
\* accept, reject or complete it fails and leaves status, cancelledBy,
\* cancellationFee and refundAmount as they were.
C6_TerminalIsFinal ==
    \A a \in Actors, id \in DOMAIN bookings, r \in Reasons :
        bookings[id].status \in {"completed", "cancelled", "no_show"}
        => \A out \in {cancelBooking(bookings, now, a, id, r),
                       cancelBookingUser(bookings, now, a, id, r),
                       updateBookingStatus(bookings, now, a, id, "cancelled", r),
                       acceptBooking(bookings, now, a, id),
                       rejectBooking(bookings, now, a, id, r),
                       completeBooking(bookings, now, a, id)} :
              /\ out.result # "ok"
              /\ CancellationFields(out.docs[id]) = CancellationFields(bookings[id])

\* the owner tried to cancel a completed booking and was refused
C6_Witness ==
    /\ response.op = "cancelBooking" /\ response.result = "CannotCancel"
    /\ response.id \in DOMAIN bookings
    /\ bookings[response.id].status = "completed"
    /\ bookings[response.id].cancelledBy = "none"

\* C7: every cancelled booking has refundAmount + cancellationFee = totalAmount.
C7_CancelledAmountsAddUp ==
    \A id \in DOMAIN bookings :
        bookings[id].status = "cancelled"
        => bookings[id].refundAmount + bookings[id].cancellationFee = bookings[id].totalAmount

\* C10: a rejection by the provider of a pending booking with a non-empty reason
\* stores status cancelled, cancelledBy provider, fee 0 and a full refund however
\* close the booking is; any other rejection fails and changes nothing.
C10_RejectRefundsInFull ==
    \A a \in Actors, id \in DOMAIN bookings, r \in Reasons \ {LongReason} :
        LET out == rejectBooking(bookings, now, a, id, r) IN
        IF bookings[id].provider = a /\ bookings[id].status = "pending" /\ ~IsBlank(r)
        THEN /\ out.result = "ok"
             /\ out.docs[id].status = "cancelled"
             /\ out.docs[id].cancelledBy = "provider"
             /\ out.docs[id].cancellationFee = 0
             /\ out.docs[id].refundAmount = bookings[id].totalAmount
        ELSE out.result # "ok" /\ out.docs = bookings

---------------------------------------------------------------------------
(* Claims about the cancellation fee *)

MinutesAhead(b) == bookingDateTime(b) - now

\* the fee table of the specification, for m minutes until the booking starts
TableFee(total, m) ==
    IF m > 48 * 60 THEN 0
    ELSE IF m > 24 * 60 THEN total \div 10
    ELSE IF m > 2 * 60 THEN total \div 2
    ELSE total

\* C8: calculateCancellationFee is 0 above 48 hours, 10% in (24, 48], 50% in
\* (2, 24] and 100% at 2 hours or less; 30 hours ahead a total of 100 gives fee 10
\* and refund 90; the fee never grows as the hours until the booking grow.
C8_FeeFollowsTable ==
    \A id \in DOMAIN bookings :
        /\ calculateCancellationFee(bookings[id], now)
              = TableFee(bookings[id].totalAmount, MinutesAhead(bookings[id]))
        /\ bookings[id].status = "cancelled"
              => /\ bookings[id].cancellationFee
                       = TableFee(bookings[id].totalAmount, MinutesAhead(bookings[id]))
                 /\ bookings[id].refundAmount
                       = bookings[id].totalAmount - bookings[id].cancellationFee
        /\ (bookings[id].totalAmount = 100 /\ MinutesAhead(bookings[id]) = 30 * 60)
              => calculateCancellationFee(bookings[id], now) = 10
        /\ \A m \in FeeMinutes :
              m >= MinutesAhead(bookings[id])
                 => calculateCancellationFee(bookings[id], bookingDateTime(bookings[id]) - m)
                       <= calculateCancellationFee(bookings[id], now)

\* a booking of 100 cancelled 30 hours ahead: fee 10, refund 90
C8_Witness ==
    \E id \in DOMAIN bookings :
        /\ bookings[id].status = "cancelled"
        /\ bookings[id].totalAmount = 100
        /\ MinutesAhead(bookings[id]) = 30 * 60
        /\ bookings[id].cancellationFee = 10
        /\ bookings[id].refundAmount = 90
        /\ response.result = "ok"

\* C9 as claimed: a booking cancelled exactly 48 hours ahead pays no fee, exactly
\* 24 hours ahead 10%, exactly 2 hours ahead 50%.
C9_BoundaryInLowerBracket ==
    \A id \in DOMAIN bookings :
        bookings[id].status = "cancelled"
        => /\ MinutesAhead(bookings[id]) = 48 * 60 => bookings[id].cancellationFee = 0
           /\ MinutesAhead(bookings[id]) = 24 * 60
                 => bookings[id].cancellationFee = bookings[id].totalAmount \div 10
           /\ MinutesAhead(bookings[id]) = 2 * 60
                 => bookings[id].cancellationFee = bookings[id].totalAmount \div 2

\* C9 as amended: the breakpoints are exactly 2, 24 and 48 hours and each belongs
\* to the higher-fee bracket: exactly 48 hours gives 10%, exactly 24 hours 50%,
\* exactly 2 hours 100%; one minute more gives 0, 10% and 50%.
C9_BoundaryInHigherBracket ==
    \A id \in DOMAIN bookings :
        bookings[id].status = "cancelled"
        => /\ MinutesAhead(bookings[id]) = 48 * 60
                 => bookings[id].cancellationFee = bookings[id].totalAmount \div 10
           /\ MinutesAhead(bookings[id]) = 24 * 60
                 => bookings[id].cancellationFee = bookings[id].totalAmount \div 2
           /\ MinutesAhead(bookings[id]) = 2 * 60
                 => bookings[id].cancellationFee = bookings[id].totalAmount
           /\ MinutesAhead(bookings[id]) = 48 * 60 + 1 => bookings[id].cancellationFee = 0
           /\ MinutesAhead(bookings[id]) = 24 * 60 + 1
                 => bookings[id].cancellationFee = bookings[id].totalAmount \div 10
           /\ MinutesAhead(bookings[id]) = 2 * 60 + 1
                 => bookings[id].cancellationFee = bookings[id].totalAmount \div 2

\* a booking cancelled exactly 24 hours ahead was charged half of its total
C9_Witness ==
    \E id \in DOMAIN bookings :
        /\ bookings[id].status = "cancelled"
        /\ MinutesAhead(bookings[id]) = 24 * 60
        /\ bookings[id].totalAmount > 0
        /\ bookings[id].cancellationFee = bookings[id].totalAmount \div 2

---------------------------------------------------------------------------
(* Claims about the cancellation policies and the provider's operations *)

\* reasons a cancel request may carry that the schema accepts
StorableReasons == {NoReason, ShortReason}

\* C11: cancelBookingUser by an authorised actor always cancels a pending booking
\* and stores fee 0 and a refund of the whole total, whatever the hours until the
\* booking; on a confirmed booking a successful call stores the fee of
\* calculateCancellationFee; in any other status the call fails and changes nothing.
C11_UserPolicyFees ==
    \A a \in Actors, id \in DOMAIN bookings, r \in StorableReasons :
        OwnerProviderOrAdmin(bookings[id], a)
        => LET out == cancelBookingUser(bookings, now, a, id, r) IN
           CASE bookings[id].status = "pending" ->
                    /\ out.result = "ok"
                    /\ out.docs[id].status = "cancelled"
                    /\ out.docs[id].cancellationFee = 0
                    /\ out.docs[id].refundAmount = bookings[id].totalAmount
             [] bookings[id].status = "confirmed" ->
                    out.result = "ok"
                    => /\ out.docs[id].status = "cancelled"
                       /\ out.docs[id].cancellationFee
                             = calculateCancellationFee(bookings[id], now)
             [] OTHER -> out.result # "ok" /\ out.docs = bookings

\* C12: cancelBooking by the owner, the provider or an admin succeeds on a pending,
\* confirmed or in_progress booking at any time, and stores the fee of
\* calculateCancellationFee whatever the status was.
C12_StrictCancelsAnyNonTerminal ==
    \A a \in Actors, id \in DOMAIN bookings, r \in StorableReasons :
        (/\ OwnerProviderOrAdmin(bookings[id], a)
         /\ bookings[id].status \in {"pending", "confirmed", "in_progress"})
        => LET out == cancelBooking(bookings, now, a, id, r) IN
           /\ out.result = "ok"
           /\ out.docs[id].status = "cancelled"
           /\ out.docs[id].cancellationFee = calculateCancellationFee(bookings[id], now)

\* the cancelledBy tag that names the role of an acting party
RoleTag(a) ==
    CASE Role[a] = "admin" -> "admin"
      [] Role[a] = "service_provider" -> "provider"
      [] Role[a] = "user" -> "user"

\* C13: every successful cancellation through cancelBooking, cancelBookingUser or
\* updateBookingStatus records as cancelledBy the role of the acting party: admin
\* for an admin, provider for a service provider, user for a user.
C13_CancelledByIsActorsRole ==
    \A a \in Actors, id \in DOMAIN bookings :
        \A out \in {cancelBooking(bookings, now, a, id, ShortReason),
                     cancelBookingUser(bookings, now, a, id, ShortReason),
                     updateBookingStatus(bookings, now, a, id, "cancelled", ShortReason)} :
            out.result = "ok" => out.docs[id].cancelledBy = RoleTag(a)

\* C14: acceptBooking succeeds only for the booking's provider on a pending
\* booking, and then sets status confirmed and nothing else; any other actor is
\* refused, and the provider is refused in any other status; a refused call
\* leaves the booking as it was.
C14_AcceptByProviderOnPending ==
    \A a \in Actors, id \in DOMAIN bookings :
        LET out == acceptBooking(bookings, now, a, id) IN
        IF bookings[id].provider # a
        THEN out.result = "Unauthorized" /\ out.docs = bookings
        ELSE IF bookings[id].status # "pending"
        THEN out.result = "InvalidTransition" /\ out.docs = bookings
        ELSE out.result = "ok" /\ out.docs = [bookings EXCEPT ![id].status = "confirmed"]

\* the provider accepted a pending booking
C14_Witness ==
    /\ response.op = "acceptBooking" /\ response.result = "ok"
    /\ response.id \in DOMAIN bookings
    /\ bookings[response.id].status = "confirmed"
    /\ bookings[response.id].provider = "p1"

\* C15: completeBooking by the booking's provider sets status completed when the
\* status is confirmed or in_progress; in any other status and for any other
\* actor it fails and changes nothing.
C15_CompleteFromConfirmedOrInProgress ==
    \A a \in Actors, id \in DOMAIN bookings :
        LET out == completeBooking(bookings, now, a, id) IN
        IF bookings[id].provider = a /\ bookings[id].status \in {"confirmed", "in_progress"}
        THEN out.result = "ok" /\ out.docs[id].status = "completed"
        ELSE out.result # "ok" /\ out.docs = bookings

\* C16: rateBooking by the owner sets the rating exactly when the booking is
\* completed and has no rating yet; every refused call leaves the rating as it was.
C16_RateOnceWhenCompleted ==
    \A id \in DOMAIN bookings :
        LET out == rateBooking(bookings, now, bookings[id].user, id, [score |-> 5, rating |-> 5]) IN
        IF bookings[id].status = "completed" /\ bookings[id].rating.score = 0
        THEN out.result = "ok" /\ out.docs[id].rating.score = 5
        ELSE out.result # "ok" /\ out.docs[id].rating = bookings[id].rating

---------------------------------------------------------------------------
(* Claims about payment events *)

\* the payment collection with every record linked to booking 1
Linked(pays) == [i \in DOMAIN pays |-> [pays[i] EXCEPT !.booking = 1]]

\* the payment collections the claims are evaluated on: the stored one, and the
\* stored one with its records linked to the booking
PaymentViews == {payments, Linked(payments)}

\* the outcome of every payment event that passes its checks, applied to pays
PaymentEventOutcomes(pays) ==
    {handleWebhook(bookings, pays, body, Hmac(StripeWebhookSecret, body)) :
        body \in StripeEvents}
    \cup {handleRazorpayWebhook(bookings, pays, now, body, Hmac(RazorpayWebhookSecret, body)) :
            body \in RazorpayEvents}
    \cup {confirmPayment(bookings, pays, "u1", intent, "succeeded") : intent \in StripeIntents}
    \cup {verifyRazorpayPayment(bookings, pays, "u1", 10 + k, 21,
                                Hmac(RazorpayKeySecret, <<10 + k, 21>>)) : k \in 1..MaxPayments}
    \cup {refundPayment(bookings, pays, "a1", k, TRUE) : k \in 1..MaxPayments}
    \cup {refundRazorpayPayment(bookings, pays, "a1", 21, amount, TRUE) : amount \in {0, 50}}

\* the fields of the bookings that a payment event must leave alone
LifecycleFields(docs) ==
    [i \in DOMAIN docs |->
        <<docs[i].status, docs[i].totalAmount, docs[i].cancellationFee, docs[i].refundAmount>>]

\* C17: no payment event (webhook of either gateway, confirmPayment,
\* verifyRazorpayPayment, refund) changes a booking's status, totalAmount,
\* cancellationFee or refundAmount.
C17_PaymentEventsKeepLifecycle ==
    \A pays \in PaymentViews :
        \A out \in PaymentEventOutcomes(pays) :
            LifecycleFields(out.docs) = LifecycleFields(bookings)

\* a verified payment_intent.succeeded marked a pending booking paid; it is still pending
C17_Witness ==
    /\ response.op = "handleWebhook" /\ response.result = "received"
    /\ inflight.body.type = "payment_intent.succeeded"
    /\ inflight.body.bookingId = 1
    /\ bookings[1].paymentStatus = "paid"
    /\ bookings[1].status = "pending"

\* the booking the event just applied is about: the bookingId of a Stripe event's
\* metadata, the booking of the Razorpay payment's record; 0 if there is none
BookingOfDelivery ==
    IF inflight.gateway = "stripe" THEN inflight.body.bookingId
    ELSE IF FindOne(payments, "razorpayPaymentId", inflight.body.ref) # 0
    THEN payments[FindOne(payments, "razorpayPaymentId", inflight.body.ref)].booking
    ELSE 0

\* the paymentStatus a webhook event stands for
StatusOfEvent(type) ==
    CASE type \in {"payment_intent.succeeded", "payment.captured"} -> "paid"
      [] type \in {"payment_intent.payment_failed", "payment.failed"} -> "failed"
      [] type \in {"charge.refunded", "refund.processed"} -> "refunded"
      [] OTHER -> "none"

\* C18: once a verified success, failure or refund webhook event of either gateway
\* has been applied for a payment linked to a booking, that booking's paymentStatus
\* is paid, failed or refunded respectively.
C18_WebhookSetsPaymentStatus ==
    (/\ inflight.gateway # "none"
     /\ response.op \in {"handleWebhook", "handleRazorpayWebhook"}
     /\ response.result = "received"
     /\ StatusOfEvent(inflight.body.type) # "none"
     /\ BookingOfDelivery \in DOMAIN bookings)
    => bookings[BookingOfDelivery].paymentStatus = StatusOfEvent(inflight.body.type)

\* what C19 compares: paymentStatus and the amounts of every booking, status and
\* amounts of every payment record
MoneyView(out) ==
    <<[i \in DOMAIN out.docs |->
          <<out.docs[i].paymentStatus, out.docs[i].totalAmount,
            out.docs[i].cancellationFee, out.docs[i].refundAmount>>],
      [i \in DOMAIN out.pays |->
          <<out.pays[i].status, out.pays[i].amount, out.pays[i].refundAmount>>]>>

\* C19: a verified payment-captured event (payment.captured of Razorpay,
\* payment_intent.succeeded of Stripe) applied a second time, at the same or a
\* later instant, leaves every booking's paymentStatus and amounts and every
\* payment record's status and amounts as the first application left them.
C19_CapturedTwiceIsCapturedOnce ==
    \A pays \in PaymentViews, t2 \in PayInstants :
        /\ \A body \in {e \in RazorpayEvents : e.type = "payment.captured"} :
              LET sig == Hmac(RazorpayWebhookSecret, body)
                  once == handleRazorpayWebhook(bookings, pays, now, body, sig)
                  twice == handleRazorpayWebhook(once.docs, once.pays, t2, body, sig)
              IN  /\ once.result = "received" /\ twice.result = "received"
                  /\ MoneyView(twice) = MoneyView(once)
        /\ \A body \in {e \in StripeEvents : e.type = "payment_intent.succeeded"} :
              LET sig == Hmac(StripeWebhookSecret, body)
                  once == handleWebhook(bookings, pays, body, sig)
                  twice == handleWebhook(once.docs, once.pays, body, sig)
              IN  /\ once.result = "received" /\ twice.result = "received"
                  /\ MoneyView(twice) = MoneyView(once)

\* Razorpay delivered payment.captured twice in a row for a verified payment
C19_Witness ==
    /\ inflight.gateway = "razorpay"
    /\ inflight.body.type = "payment.captured"
    /\ inflight.deliveries = 2
    /\ response.op = "handleRazorpayWebhook" /\ response.result = "received"
    /\ \E i \in DOMAIN payments :
          /\ payments[i].razorpayPaymentId = inflight.body.ref
          /\ payments[i].status = "completed"
          /\ payments[i].capturedAt = now

\* C20: a Stripe or Razorpay webhook event, or a verifyRazorpayPayment request,
\* whose signature is missing or is not the HMAC of what it signs is answered with
\* an error and changes no payment record and no booking.
C20_BadSignatureChangesNothing ==
    \A pays \in PaymentViews :
        /\ \A body \in StripeEvents :
              \A sig \in Signatures(StripeWebhookSecret, body)
                            \ {Hmac(StripeWebhookSecret, body)} :
                 LET out == handleWebhook(bookings, pays, body, sig) IN
                 out.result = "WebhookError" /\ out.docs = bookings /\ out.pays = pays
        /\ \A body \in RazorpayEvents :
              \A sig \in Signatures(RazorpayWebhookSecret, body)
                            \ {Hmac(RazorpayWebhookSecret, body)} :
                 LET out == handleRazorpayWebhook(bookings, pays, now, body, sig) IN
                 /\ out.result \in {"MissingSignature", "InvalidSignature"}
                 /\ out.docs = bookings /\ out.pays = pays
        /\ \A k \in 1..MaxPayments :
              \A sig \in {MissingSignature, Hmac("guess", <<10 + k, 21>>),
                          Hmac(RazorpayKeySecret, <<10 + k, 22>>)} :
                 LET out == verifyRazorpayPayment(bookings, pays, "u1", 10 + k, 21, sig) IN
                 /\ out.result \in {"MissingParameters", "InvalidSignature"}
                 /\ out.docs = bookings /\ out.pays = pays

\* a Razorpay webhook with a forged signature was refused while an order was stored
C20_Witness ==
    /\ response.op = "handleRazorpayWebhook"
    /\ response.result = "InvalidSignature"
    /\ Len(payments) > 0
    /\ inflight = NoDelivery

---------------------------------------------------------------------------
(* createBooking: what is stored and what is refused *)

\* the unit price and the duration of the request the lifecycle is about
UnitPrice == Services[LifecycleBody.serviceId].price

\* C21: a createBooking that succeeds appends one booking whose totalAmount is
\* the service's unit price times the requested duration (50 x 2 = 100), with
\* status pending and paymentStatus pending; for a service that does not exist
\* it fails with ServiceNotFound, for an inactive one with ServiceInactive, and
\* in both cases the collection is left as it was.
C21_CreatePricesAndRefuses ==
    \A a \in {x \in Actors : Role[x] = "user"}, body \in CreateBodies :
        LET out == createBooking(bookings, a, body) IN
        /\ body.serviceId \notin DOMAIN Services =>
              out.result = "ServiceNotFound" /\ out.docs = bookings
        /\ (body.serviceId \in DOMAIN Services /\ ~Services[body.serviceId].isActive) =>
              out.result = "ServiceInactive" /\ out.docs = bookings
        /\ out.result = "ok" =>
              /\ Len(out.docs) = Len(bookings) + 1
              /\ SubSeq(out.docs, 1, Len(bookings)) = bookings
              /\ out.docs[Len(out.docs)].totalAmount
                    = Services[body.serviceId].price * body.duration
              /\ out.docs[Len(out.docs)].status = "pending"
              /\ out.docs[Len(out.docs)].paymentStatus = "pending"
        /\ (response.op = "createBooking" /\ response.result = "ok") =>
              /\ response.id \in DOMAIN bookings
              /\ bookings[response.id].totalAmount = UnitPrice * LifecycleBody.duration
              /\ bookings[response.id].totalAmount = 100
              /\ bookings[response.id].status = "pending"
              /\ bookings[response.id].paymentStatus = "pending"

\* a booking for unit price 50 and duration 2 has just been created
C21_Witness ==
    /\ response = Reply("createBooking", 1, "ok")
    /\ UnitPrice = 50 /\ LifecycleBody.duration = 2
    /\ bookings[1].totalAmount = 100

---------------------------------------------------------------------------
(* Two lifecycle requests on one booking *)

\* the booking after rq1 and then rq2 have each run from start to end
Serially(docs, t, rq1, rq2) ==
    lifecycleOutcome(rq2.op,
                     lifecycleOutcome(rq1.op, docs, t, rq1.actor, 1, rq1.reason).docs,
                     t, rq2.actor, 1, rq2.reason).docs

\* C22: whatever the interleaving of two lifecycle requests on one booking, no
\* booking is confirmed or completed while it carries a cancellation's
\* cancelledBy, cancellationFee or refundAmount.
C22_NoCancellationOnLiveBooking ==
    \A i \in DOMAIN bookings :
        bookings[i].status \in {"confirmed", "completed"} =>
            /\ bookings[i].cancelledBy = "none"
            /\ bookings[i].cancellationFee = 0
            /\ bookings[i].refundAmount = 0

\* C22: once two requests that were both in flight have both answered, the
\* booking is what one of the two serial orders leaves.
C22_InterleavingIsSerial ==
    (Len(requests) = 2 /\ requests[1].pc = "done" /\ requests[2].pc = "done"
        /\ requests[2].read = requests[1].read) =>
        \/ bookings = Serially(requests[1].read, now, requests[1], requests[2])
        \/ bookings = Serially(requests[1].read, now, requests[2], requests[1])

---------------------------------------------------------------------------
(* Webhook events and a failing repository *)

\* C23: when a repository operation fails while a verified Razorpay webhook
\* event is being applied to a stored payment, the webhook answers with an
\* error and not with received.
C23_RepositoryFailureIsSurfaced ==
    \A body \in RazorpayEvents, failure \in RepoFailures \ {"none"} :
        (/\ body.type \in {"payment.captured", "payment.failed", "refund.processed"}
         /\ FindOne(payments, "razorpayPaymentId", body.ref) # 0) =>
            handleRazorpayWebhookRepo(bookings, payments, now, body,
                                      Hmac(RazorpayWebhookSecret, body), failure).result
                # "received"

---------------------------------------------------------------------------
(* Which bookings block a slot *)

\* the create request for the slot booking b holds
BodyOfBooking(b) ==
    [serviceId |-> b.service, bookingDate |-> b.bookingDate, startTime |-> b.startTime,
     endTime |-> b.endTime, duration |-> b.duration]

\* C24: the availability query finds only bookings that are pending or
\* confirmed: a booking that is cancelled, completed or no_show is never among
\* the conflicts, whatever slot is asked for; the booking passed as
\* excludeBookingId is never among them either; and for the slot of a cancelled
\* booking a new createBooking succeeds.
C24_OnlyPendingAndConfirmedBlock ==
    /\ \A body \in AvailBodies, x \in 0..MaxBookings :
          LET found == checkAvailability(bookings, body.serviceId, body.bookingDate,
                                         body.startTime, body.endTime, x)
          IN /\ \A i \in found : bookings[i].status \in {"pending", "confirmed"}
             /\ x \notin found
    /\ \A i \in DOMAIN bookings :
          /\ \A st \in Statuses \ {"pending", "confirmed"} :
                i \notin checkAvailability([bookings EXCEPT ![i].status = st],
                                           bookings[i].service, bookings[i].bookingDate,
                                           bookings[i].startTime, bookings[i].endTime, 0)
          /\ i \notin checkAvailability(bookings, bookings[i].service, bookings[i].bookingDate,
                                        bookings[i].startTime, bookings[i].endTime, i)
          /\ bookings[i].status = "cancelled" =>
                createBooking(bookings, "u1", BodyOfBooking(bookings[i])).result = "ok"

\* a booking was cancelled and its slot was then booked again
C24_Witness ==
    /\ Len(bookings) = 2
    /\ bookings[1].status = "cancelled"
    /\ BodyOfBooking(bookings[2]) = BodyOfBooking(bookings[1])
    /\ response = Reply("createBooking", 2, "ok")
    /\ availability = {}

---------------------------------------------------------------------------
(* What a stored booking may hold *)

\* C25: a booking whose status is not cancelled has no cancellation data:
\* cancellationFee and refundAmount are 0, cancelledBy and cancellationReason
\* are absent.
C25_CancellationDataOnlyWhenCancelled ==
    \A i \in DOMAIN bookings :
        bookings[i].status # "cancelled" =>
            /\ bookings[i].cancellationFee = 0
            /\ bookings[i].refundAmount = 0
            /\ bookings[i].cancelledBy = "none"
            /\ bookings[i].cancellationReason = <<>>

\* C26: every stored booking starts strictly before it ends.
C26_StartsBeforeItEnds ==
    \A i \in DOMAIN bookings :
        MinutesOfDay(bookings[i].startTime) < MinutesOfDay(bookings[i].endTime)

\* C27: no step changes the totalAmount of a stored booking.
C27_TotalAmountIsFixed ==
    [][\A i \in DOMAIN bookings :
          i \in DOMAIN bookings' /\ bookings'[i].totalAmount = bookings[i].totalAmount]_vars

\* C29: no totalAmount is negative, and the cancellationFee and the
\* refundAmount of a cancelled booking lie between 0 and its totalAmount.
C29_AmountsWithinTotal ==
    \A i \in DOMAIN bookings :
        /\ bookings[i].totalAmount >= 0
        /\ bookings[i].status = "cancelled" =>
              /\ 0 <= bookings[i].cancellationFee
              /\ bookings[i].cancellationFee <= bookings[i].totalAmount
              /\ 0 <= bookings[i].refundAmount
              /\ bookings[i].refundAmount <= bookings[i].totalAmount

\* C29, first half: no totalAmount is negative.
C29_TotalAmountNotNegative ==
    \A i \in DOMAIN bookings : bookings[i].totalAmount >= 0

---------------------------------------------------------------------------
(* The two cancel paths on a confirmed booking *)

\* the collection as it was when its first booking was still confirmed and
\* uncancelled
AsConfirmed(docs) ==
    [docs EXCEPT ![1] = [NewBooking(docs[1].user, BodyOfBooking(docs[1]))
                            EXCEPT !.status = "confirmed"]]

\* C28: on a confirmed booking cancelBooking and cancelBookingUser, given the
\* same actor, reason and instant, answer alike and leave the same booking: for
\* an actor allowed to cancel and a reason that can be stored both fail when the
\* booking starts in 24 hours or less, and otherwise both succeed with the same
\* status, cancelledBy, cancellationFee and refundAmount.
C28_CancelPathsAgreeOnConfirmed ==
    \A a \in Actors, id \in DOMAIN bookings, r \in {NoReason, ShortReason, LongReason} :
        bookings[id].status = "confirmed" =>
            LET strict == cancelBooking(bookings, now, a, id, r)
                friendly == cancelBookingUser(bookings, now, a, id, r)
            IN /\ strict.result = friendly.result
               /\ strict.docs = friendly.docs
               /\ (OwnerProviderOrAdmin(bookings[id], a) /\ r \in StorableReasons) =>
                     IF MinutesAhead(bookings[id]) <= 24 * 60
                     THEN strict.result = "CannotCancel" /\ strict.docs = bookings
                     ELSE /\ strict.result = "ok"
                          /\ strict.docs[id].status = "cancelled"
                          /\ friendly.docs[id].status = "cancelled"
                          /\ CancellationFields(strict.docs[id])
                                = CancellationFields(friendly.docs[id])

\* cancelBooking has just cancelled a confirmed booking 30 hours ahead for a fee
\* of 10, and cancelBookingUser would have left the same booking
C28_Witness ==
    /\ response = Reply("cancelBooking", 1, "ok")
    /\ MinutesAhead(bookings[1]) = 30 * 60
    /\ bookings[1].cancellationFee = 10
    /\ cancelBooking(AsConfirmed(bookings), now, "u1", 1, ShortReason).docs = bookings
    /\ cancelBookingUser(AsConfirmed(bookings), now, "u1", 1, ShortReason).docs = bookings

---------------------------------------------------------------------------
(* Late and replayed webhook events *)

\* the outcomes that refund a payment of pays: the refund event of Razorpay and
\* the refund requests of both gateways
RefundOutcomes(pays) ==
    {handleRazorpayWebhook(bookings, pays, now, body, Hmac(RazorpayWebhookSecret, body)) :
        body \in {e \in RazorpayEvents : e.type = "refund.processed"}}
    \cup {refundPayment(bookings, pays, "a1", k, TRUE) : k \in 1..MaxPayments}
    \cup {refundRazorpayPayment(bookings, pays, "a1", 21, 0, TRUE)}

\* a verified success or failure event of either gateway, delivered after the
\* refund whose outcome is out
LateOutcomes(out) ==
    {handleRazorpayWebhook(out.docs, out.pays, now, body, Hmac(RazorpayWebhookSecret, body)) :
        body \in {e \in RazorpayEvents : e.type \in {"payment.captured", "payment.failed"}}}
    \cup {handleWebhook(out.docs, out.pays, body, Hmac(StripeWebhookSecret, body)) :
            body \in {e \in StripeEvents :
                         e.type \in {"payment_intent.succeeded",
                                     "payment_intent.payment_failed"}}}

====
